---- MODULE Spec2Model ----
(***************************************************************************)
(* Model of llm-management-api.py: the Flask control API that starts,      *)
(* stops, restarts and reports the status of the NLLB and Ollama services. *)
(* Each request is handled by its own thread (werkzeug's threaded server); *)
(* the handlers share the module-level dict service_processes and observe  *)
(* the host (listening sockets, health endpoints, control scripts).        *)
(***************************************************************************)
EXTENDS Integers, Sequences, FiniteSets, TLC

\* ---- bounds of the model ----
MaxWorkers == 2        \* request threads alive at the same time
MaxRequests == 2       \* requests accepted in one behaviour
MaxThreadedRequests == 2   \* requests accepted in one behaviour with overlapping requests
MaxFairRequests == 1   \* requests accepted in one behaviour followed to its end
MaxEnvChanges == 1     \* changes of the host's state in one behaviour
MaxPid == 1            \* process identifiers 1..MaxPid

\* ---- program constants ----
PollAttempts == 15     \* for _ in range(15)

None == 0              \* Python's None for a pid (falsy, as is no real pid)
Workers == 1..MaxWorkers
Pids == 1..MaxPid

\* the loop order of update_service_status
Services == <<"nllb", "ollama">>
\* names a request can carry in its URL
RequestNames == {"nllb", "ollama", "bogus"}
LifecycleOps == {"start", "stop", "restart"}
Ops == LifecycleOps \cup {"status", "health"}

PortOf(service) == IF service = "nllb" THEN 8000 ELSE 8001
Ports == {8000, 8001}

VARIABLES
  listening,          \* host: port -> pid of the process in LISTEN state, or None
  healthy,            \* host: service -> its health URL answers 200
  envChanges,         \* number of host changes so far
  service_processes,  \* the registry: service -> [pid, status, start_time]
  nreq,               \* number of requests accepted so far
  pc,                 \* worker -> position in its handler
  req,                \* worker -> [op, service] of the request it handles
  script_out,         \* worker -> (stdout, stderr, returncode) of run_script
  i,                  \* worker -> iterations of the polling loop entered
  upd,                \* worker -> [idx, pid]: loop state of update_service_status
  view,               \* worker -> fields of the status body read so far
  stop_result,        \* worker -> what stop_service returned to restart_service
  resp,               \* worker -> the response sent
  child,              \* history: worker -> what the last script really did
  hist,               \* history: worker -> counters of this invocation
  peers,              \* history: worker -> workers in flight during this invocation
  probe               \* one health probe on the wire, followed on its own

host == <<listening, healthy, envChanges, probe>>
locals == <<script_out, i, upd, view, stop_result>>
locals_but_stop == <<script_out, i, upd, view>>
history == <<child, hist, peers>>
vars == <<listening, healthy, envChanges, service_processes, nreq, pc, req,
          script_out, i, upd, view, stop_result, resp, child, hist, peers,
          probe>>

\* ---- script runs ----
\* What a control script can do: exit with a code, run into the 30 s timeout
\* (its output so far is in the TimeoutExpired exception), or not launch.
ScriptOutcomes ==
  { [kind |-> "exit", rc |-> 0, out |-> "started", err |-> ""],
    [kind |-> "exit", rc |-> 1, out |-> "log", err |-> "model not found"],
    [kind |-> "timeout", rc |-> 0 - 9, out |-> "log", err |-> "warn"],
    [kind |-> "oserror", rc |-> 0 - 1, out |-> "", err |-> ""] }
NoOutcome == [kind |-> "none", rc |-> 0, out |-> "", err |-> ""]

run_script(o) ==
  IF o.kind = "exit" THEN [stdout |-> o.out, stderr |-> o.err, returncode |-> o.rc]
  ELSE IF o.kind = "timeout"
       THEN [stdout |-> "", stderr |-> "Script timed out", returncode |-> 1]
       ELSE [stdout |-> "", stderr |-> "str(e)", returncode |-> 1]
NoScript == [stdout |-> "", stderr |-> "", returncode |-> 0]

\* ---- observations of the host ----
\* What requests.get(url, timeout=5) can give: a response with a status code,
\* or an exception (connection refused, no answer within 5 s).
StatusCodes == {200, 204, 404, 500, 503}
HttpResponse(code) == [kind |-> "response", code |-> code, exc |-> ""]
HttpRaise(exc) == [kind |-> "raise", code |-> 0, exc |-> exc]
HttpOutcomes ==
  {HttpResponse(c) : c \in StatusCodes} \cup
  {HttpRaise(e) : e \in {"ConnectionError", "Timeout"}}
NoGet == [kind |-> "none", code |-> 0, exc |-> ""]

\* mutant: every status below 400 counts as healthy
check_service_health_given_M(service, get) ==
  IF service \notin {"nllb", "ollama"} THEN FALSE
  ELSE IF get.kind = "response" THEN get.code < 400
  ELSE FALSE

\* check_service_health for what the GET to the service's URL gave
check_service_health_given(service, get) ==
  IF service \notin {"nllb", "ollama"} THEN FALSE
  ELSE IF get.kind = "response" THEN get.code = 200
  ELSE FALSE

\* the GET to a service of the host: healthy[s] says that it answers 200
HostGet(service) ==
  IF service \in DOMAIN healthy /\ healthy[service]
  THEN HttpResponse(200) ELSE HttpRaise("ConnectionError")

check_service_health(service) ==
  check_service_health_given(service, HostGet(service))

\* mutant: an enumeration error reaches the caller in place of None
get_process_by_port_M(port, fault) ==
  IF fault THEN 0 - 1
  ELSE IF port \notin DOMAIN listening THEN None ELSE listening[port]

\* fault: the enumeration raised, or the listening process could not be read
get_process_by_port(port, fault) ==
  IF fault \/ port \notin DOMAIN listening THEN None ELSE listening[port]

\* ---- responses ----
\* code: the HTTP status; tuple: the view returned (response, status) and not a
\* bare Response object; body: the JSON object
NoResp == [code |-> 0, tuple |-> FALSE, body |-> [none |-> TRUE]]
Get(body, key, default) == IF key \in DOMAIN body THEN body[key] ELSE default
InvalidService == [code |-> 400, tuple |-> TRUE, body |-> [error |-> "Invalid service"]]
\* an exception that leaves a view function: Flask answers 500
InternalServerError(e) == [code |-> 500, tuple |-> FALSE, body |-> [exception |-> e]]

NoHist == [start_scripts |-> 0, stop_scripts |-> 0, start_calls |-> 0,
           stop_calls |-> 0, probes |-> 0, probes_true |-> 0, sleeps |-> 0,
           updates |-> 0, first_probe |-> "none", recon |-> "none",
           reg0 |-> <<>>,
           obs |-> [s \in {"nllb", "ollama"} |-> [seen |-> FALSE, pid |-> None, h |-> FALSE]]]
Bump(h, f) == [h EXCEPT ![f] = @ + 1]

\* the body of GET /services/status before any field is evaluated
NoView ==
  [k |-> 0,
   body |-> [s \in {"nllb", "ollama"} |-> [status |-> "", pid |-> None, healthy |-> FALSE]]]

InFlight(w) == pc[w] \notin {"idle", "done"}

\* the frame of update_service_status: loop index, pid, the branch taken, and
\* where it returns to
UpdStart(ret) == [idx |-> 1, pid |-> None, running |-> FALSE, ret |-> ret]
UpdIdle == [idx |-> 0, pid |-> None, running |-> FALSE, ret |-> ""]

\* ---- the registry ----
ServiceRecord(pid, status) == [pid |-> pid, status |-> status, start_time |-> None]

\* mutant: the health probe is left out of the decision
Reconciled_NoProbe(pid, h) ==
  IF pid # None THEN ServiceRecord(pid, "running")
  ELSE ServiceRecord(None, "stopped")

\* the record update_service_status leaves for an observed pid and health
Reconciled(pid, h) ==
  IF pid # None /\ h THEN ServiceRecord(pid, "running")
  ELSE ServiceRecord(None, "stopped")

\* mutant: the assignment rebinds the registry to a dict of the one service
Assign_M(reg, service, field, value) ==
  [s \in {service} |-> [reg[service] EXCEPT ![field] = value]]

\* mutant: the assignment goes to the record of every service
Assign_All(reg, service, field, value) ==
  [s \in DOMAIN reg |-> [reg[s] EXCEPT ![field] = value]]

\* mutant: the assignment also stamps the record's start_time
Assign_Stamp(reg, service, field, value) ==
  [reg EXCEPT ![service][field] = value, ![service].start_time = 1]

\* service_processes[service][field] = value
Assign(reg, service, field, value) == [reg EXCEPT ![service][field] = value]

\* mutant: a service found down is recorded as being stopped by the operation
StatusOf_M(running) == IF running THEN "running" ELSE "stopping"

\* the literal assigned to ['status'] in the branch taken
StatusOf(running) == IF running THEN "running" ELSE "stopped"

\* service_processes as written at import, then update_service_status() in
\* __main__ before the server accepts requests
Booted ==
  /\ listening \in [Ports -> {None} \cup Pids]
  /\ healthy \in [{"nllb", "ollama"} -> BOOLEAN]
  /\ envChanges = 0
  /\ service_processes =
       [s \in {"nllb", "ollama"} |-> Reconciled(listening[PortOf(s)], healthy[s])]
  /\ nreq = 0
  /\ pc = [w \in Workers |-> "idle"]
  /\ req = [w \in Workers |-> [op |-> "none", service |-> ""]]
  /\ script_out = [w \in Workers |-> NoScript]
  /\ i = [w \in Workers |-> 0]
  /\ upd = [w \in Workers |-> UpdIdle]
  /\ view = [w \in Workers |-> NoView]
  /\ stop_result = [w \in Workers |-> NoResp]
  /\ resp = [w \in Workers |-> NoResp]
  /\ child = [w \in Workers |-> NoOutcome]
  /\ hist = [w \in Workers |-> NoHist]
  /\ peers = [w \in Workers |-> {}]

NoProbe == [stage |-> "none", service |-> "", ready |-> FALSE,
            wire |-> NoGet, get |-> NoGet, result |-> FALSE]

Init == Booted /\ probe = NoProbe

\* the host changes on its own: a service comes up, goes down, hangs, ...
EnvChange ==
  /\ envChanges < MaxEnvChanges
  /\ \E s \in {"nllb", "ollama"}, p \in {None} \cup Pids, h \in BOOLEAN :
       /\ <<p, h>> # <<listening[PortOf(s)], healthy[s]>>
       /\ listening' = [listening EXCEPT ![PortOf(s)] = p]
       /\ healthy' = [healthy EXCEPT ![s] = h]
  /\ envChanges' = envChanges + 1
  /\ UNCHANGED <<service_processes, nreq, pc, req, resp, probe>>
  /\ UNCHANGED <<locals, history>>

\* Flask's routing: the first statement of the view function of the request
EntryOf(op) ==
  CASE op = "start" -> "start_entry"
    [] op = "stop" -> "stop_entry"
    [] op = "restart" -> "restart_entry"
    [] op = "status" -> "upd_inspect"
    [] op = "health" -> "health_entry"

\* a request arrives and a thread starts to handle it: the thread takes the
\* lowest free slot, and the slots of answered requests are free
Begin(w) ==
  /\ pc[w] = "idle"
  /\ \A v \in Workers : pc[v] # "done" /\ (v < w => pc[v] # "idle")
  /\ nreq < MaxRequests
  /\ nreq' = nreq + 1
  /\ \E op \in Ops, name \in RequestNames :
       /\ op \in {"status", "health"} => name = "nllb"
       /\ req' = [req EXCEPT ![w] =
                    [op |-> op, service |-> IF op \in LifecycleOps THEN name ELSE ""]]
       /\ pc' = [pc EXCEPT ![w] = EntryOf(op)]
       /\ upd' = [upd EXCEPT ![w] = IF op = "status" THEN UpdStart("status_read")
                                     ELSE UpdIdle]
  /\ peers' = [v \in Workers |->
                 IF v = w THEN {u \in Workers \ {w} : InFlight(u)}
                 ELSE IF InFlight(v) THEN peers[v] \cup {w} ELSE peers[v]]
  /\ hist' = [hist EXCEPT ![w].reg0 = service_processes]
  /\ UNCHANGED <<host, service_processes, script_out, i, view, stop_result, resp, child>>

\* the thread of an answered request ends: its frame and its response are gone
Finish(w) ==
  /\ pc[w] = "done"
  /\ pc' = [pc EXCEPT ![w] = "idle"]
  /\ req' = [req EXCEPT ![w] = [op |-> "none", service |-> ""]]
  /\ script_out' = [script_out EXCEPT ![w] = NoScript]
  /\ i' = [i EXCEPT ![w] = 0]
  /\ upd' = [upd EXCEPT ![w] = UpdIdle]
  /\ view' = [view EXCEPT ![w] = NoView]
  /\ stop_result' = [stop_result EXCEPT ![w] = NoResp]
  /\ resp' = [resp EXCEPT ![w] = NoResp]
  /\ child' = [child EXCEPT ![w] = NoOutcome]
  /\ hist' = [hist EXCEPT ![w] = NoHist]
  /\ peers' = [peers EXCEPT ![w] = {}]
  /\ UNCHANGED <<host, service_processes, nreq>>

\* a view function returns r: to Flask, or to restart_service when it called
\* stop_service
Return(w, r, callee) ==
  IF req[w].op = "restart" /\ callee = "stop_service"
  THEN /\ stop_result' = [stop_result EXCEPT ![w] = r]
       /\ pc' = [pc EXCEPT ![w] = "restart_after_stop"]
       /\ UNCHANGED resp
  ELSE /\ resp' = [resp EXCEPT ![w] = r]
       /\ pc' = [pc EXCEPT ![w] = "done"]
       /\ UNCHANGED stop_result

\* mutant: the name check accepts every name
IsValidService_M(service) == TRUE
IsValidService(service) == service \in {"nllb", "ollama"}

\* a probe's result in the history of the invocation
Probed(h, result) ==
  [h EXCEPT !.probes = @ + 1,
            !.probes_true = IF result THEN @ + 1 ELSE @,
            !.first_probe = IF @ = "none" THEN (IF result THEN "true" ELSE "false")
                            ELSE @]

\* ---- start_service ----
\* mutant: the early return for a healthy service is missing
AlreadyRunning_M(h) == FALSE
\* "if check_service_health(service):" at the head of start_service
AlreadyRunning(h) == h
\* mutant: the return code of the script is ignored
ScriptFailed_M(returncode) == FALSE
\* "if returncode != 0:"
ScriptFailed(returncode) == returncode # 0
\* mutant: the polling loop never returns from inside
PollReady_Never(h) == FALSE
\* mutant: the polling loop returns without looking at the probe
PollReady_M(h) == TRUE
\* "if check_service_health(service):" inside the polling loop
PollReady(h) == h

AlreadyRunningResponse(service) ==
  [code |-> 200, tuple |-> FALSE,
   body |-> [success |-> TRUE, message |-> <<service, "service is already running">>,
             status |-> "running"]]
\* mutant: the failure response leaves out what the script wrote
StartFailedResponse_M(service, r) ==
  [code |-> 500, tuple |-> TRUE,
   body |-> [success |-> FALSE, error |-> <<"Failed to start", service, "">>,
             stdout |-> ""]]
StartFailedResponse(service, r) ==
  [code |-> 500, tuple |-> TRUE,
   body |-> [success |-> FALSE, error |-> <<"Failed to start", service, r.stderr>>,
             stdout |-> r.stdout]]
StartedResponse(service, r) ==
  [code |-> 200, tuple |-> FALSE,
   body |-> [success |-> TRUE, message |-> <<service, "service started successfully">>,
             status |-> "running", stdout |-> r.stdout]]
\* mutant: the return after the loop reports success
StartTimeoutResponse_M(service, r) ==
  [code |-> 200, tuple |-> FALSE,
   body |-> [success |-> TRUE, message |-> <<service, "service started successfully">>,
             status |-> "running", stdout |-> r.stdout]]

StartTimeoutResponse(service, r) ==
  [code |-> 500, tuple |-> TRUE,
   body |-> [success |-> FALSE,
             error |-> <<service, "service failed to start within timeout">>,
             stdout |-> r.stdout]]

\* the name check and the first health probe
start_entry(w) ==
  /\ pc[w] = "start_entry"
  /\ LET service == req[w].service
         h == check_service_health(service)
         called == Bump(hist[w], "start_calls")
     IN IF ~IsValidService(service)
        THEN /\ Return(w, InvalidService, "start_service")
             /\ hist' = [hist EXCEPT ![w] = called]
        ELSE /\ hist' = [hist EXCEPT ![w] = Probed(called, h)]
             /\ IF AlreadyRunning(h)
                THEN Return(w, AlreadyRunningResponse(service), "start_service")
                ELSE /\ pc' = [pc EXCEPT ![w] = "start_script"]
                     /\ UNCHANGED <<resp, stop_result>>
  /\ UNCHANGED <<host, service_processes, nreq, req, script_out, i, upd, view,
                 child, peers>>

\* mutant: a failed start script is run a second time
start_script_M(w) ==
  /\ pc[w] = "start_script"
  /\ \E o \in ScriptOutcomes :
       LET r == run_script(o) IN
         /\ child' = [child EXCEPT ![w] = o]
         /\ script_out' = [script_out EXCEPT ![w] = r]
         /\ hist' = [hist EXCEPT ![w] = Bump(@, "start_scripts")]
         /\ IF r.returncode # 0 /\ hist[w].start_scripts = 0
            THEN UNCHANGED <<pc, resp, stop_result>>
            ELSE IF r.returncode # 0
            THEN Return(w, StartFailedResponse(req[w].service, r), "start_service")
            ELSE /\ pc' = [pc EXCEPT ![w] = "start_poll"]
                 /\ UNCHANGED <<resp, stop_result>>
  /\ UNCHANGED <<host, service_processes, nreq, req, i, upd, view, peers>>

\* run_script(start-<service>.sh) and the test of its return code
start_script(w) ==
  /\ pc[w] = "start_script"
  /\ \E o \in ScriptOutcomes :
       LET r == run_script(o) IN
         /\ child' = [child EXCEPT ![w] = o]
         /\ script_out' = [script_out EXCEPT ![w] = r]
         /\ hist' = [hist EXCEPT ![w] = Bump(@, "start_scripts")]
         /\ IF ScriptFailed(r.returncode)
            THEN Return(w, StartFailedResponse(req[w].service, r), "start_service")
            ELSE /\ pc' = [pc EXCEPT ![w] = "start_poll"]
                 /\ UNCHANGED <<resp, stop_result>>
  /\ UNCHANGED <<host, service_processes, nreq, req, i, upd, view, peers>>

\* mutant: the loop polls until the probe is positive, without a last attempt
start_poll_M(w) ==
  /\ pc[w] = "start_poll"
  /\ LET service == req[w].service
         h == check_service_health(service)
     IN IF PollReady(h)
        THEN /\ hist' = [hist EXCEPT ![w] = Probed(Bump(@, "sleeps"), h)]
             /\ i' = [i EXCEPT ![w] = @ + 1]
             /\ pc' = [pc EXCEPT ![w] = "upd_inspect"]
             /\ upd' = [upd EXCEPT ![w] = UpdStart("start_return")]
             /\ UNCHANGED <<resp, stop_result>>
        ELSE UNCHANGED <<hist, i, pc, upd, resp, stop_result>>
  /\ UNCHANGED <<host, service_processes, nreq, req, script_out, view, child, peers>>

\* one iteration of "for _ in range(15)": sleep, probe; the return after the
\* loop when this was the last iteration
start_poll(w) ==
  /\ pc[w] = "start_poll"
  /\ i[w] < PollAttempts
  /\ LET service == req[w].service
         h == check_service_health(service)
     IN /\ hist' = [hist EXCEPT ![w] = Probed(Bump(@, "sleeps"), h)]
        /\ i' = [i EXCEPT ![w] = @ + 1]
        /\ IF PollReady(h)
           THEN /\ pc' = [pc EXCEPT ![w] = "upd_inspect"]
                /\ upd' = [upd EXCEPT ![w] = UpdStart("start_return")]
                /\ UNCHANGED <<resp, stop_result>>
           ELSE IF i[w] + 1 = PollAttempts
           THEN /\ Return(w, StartTimeoutResponse(service, script_out[w]),
                          "start_service")
                /\ UNCHANGED upd
           ELSE UNCHANGED <<pc, upd, resp, stop_result>>
  /\ UNCHANGED <<host, service_processes, nreq, req, script_out, view, child, peers>>

\* the return after update_service_status() in the polling loop
start_return(w) ==
  /\ pc[w] = "start_return"
  /\ Return(w, StartedResponse(req[w].service, script_out[w]), "start_service")
  /\ UNCHANGED <<host, service_processes, nreq, req, locals_but_stop, history>>

\* ---- update_service_status ----
\* "pid = get_process_by_port(port)" for the service of this iteration
upd_inspect(w) ==
  /\ pc[w] = "upd_inspect"
  /\ \E fault \in BOOLEAN :
       upd' = [upd EXCEPT ![w].pid =
                 get_process_by_port(PortOf(Services[upd[w].idx]), fault)]
  /\ pc' = [pc EXCEPT ![w] = "upd_write_pid"]
  /\ hist' = [hist EXCEPT ![w] = IF upd[w].idx = 1 THEN Bump(@, "updates") ELSE @]
  /\ UNCHANGED <<host, service_processes, nreq, req, script_out, i, view,
                 stop_result, resp, child, peers>>

\* "if pid and check_service_health(service):" and the assignment of ['pid']
upd_write_pid(w) ==
  /\ pc[w] = "upd_write_pid"
  /\ LET service == Services[upd[w].idx]
         pid == upd[w].pid
         h == IF pid # None THEN check_service_health(service) ELSE FALSE
         rec == Reconciled(pid, h)
     IN /\ service_processes' = Assign(service_processes, service, "pid", rec.pid)
        /\ upd' = [upd EXCEPT ![w].running = (rec.status = "running")]
        /\ hist' = [hist EXCEPT ![w].obs[service] = [seen |-> TRUE, pid |-> pid, h |-> h]]
  /\ pc' = [pc EXCEPT ![w] = "upd_write_status"]
  /\ UNCHANGED <<host, nreq, req, script_out, i, view, stop_result, resp, child, peers>>

\* the assignment of ['status'], then the next iteration or the return
upd_write_status(w) ==
  /\ pc[w] = "upd_write_status"
  /\ LET service == Services[upd[w].idx]
         status == StatusOf(upd[w].running)
     IN /\ service_processes' = Assign(service_processes, service, "status", status)
        /\ hist' = [hist EXCEPT ![w].recon = IF service = req[w].service THEN status ELSE @]
  /\ IF upd[w].idx < Len(Services)
     THEN /\ upd' = [upd EXCEPT ![w] = [@ EXCEPT !.idx = @ + 1, !.pid = None,
                                                  !.running = FALSE]]
          /\ pc' = [pc EXCEPT ![w] = "upd_inspect"]
     ELSE /\ upd' = [upd EXCEPT ![w] = UpdIdle]
          /\ pc' = [pc EXCEPT ![w] = upd[w].ret]
  /\ UNCHANGED <<host, nreq, req, script_out, i, view, stop_result, resp, child, peers>>

update_service_status(w) == upd_inspect(w) \/ upd_write_pid(w) \/ upd_write_status(w)

\* ---- stop_service ----
StopFailedResponse(service, r) ==
  [code |-> 500, tuple |-> TRUE,
   body |-> [success |-> FALSE, error |-> <<"Failed to stop", service, r.stderr>>,
             stdout |-> r.stdout]]
\* a key missing from service_processes is a KeyError
StoppedResponse(service, r) ==
  IF service \in DOMAIN service_processes
  THEN [code |-> 200, tuple |-> FALSE,
        body |-> [success |-> TRUE,
                  message |-> <<service, "service stopped successfully">>,
                  status |-> service_processes[service].status,
                  stdout |-> r.stdout]]
  ELSE InternalServerError("KeyError")

\* the name check, run_script(stop-<service>.sh), the test of its return code
\* and time.sleep(2)
stop_entry(w) ==
  /\ pc[w] = "stop_entry"
  /\ LET service == req[w].service
         called == Bump(hist[w], "stop_calls")
     IN IF ~IsValidService(service)
        THEN /\ Return(w, InvalidService, "stop_service")
             /\ hist' = [hist EXCEPT ![w] = called]
             /\ UNCHANGED <<child, script_out, upd>>
        ELSE \E o \in ScriptOutcomes :
               LET r == run_script(o) IN
                 /\ child' = [child EXCEPT ![w] = o]
                 /\ script_out' = [script_out EXCEPT ![w] = r]
                 /\ IF ScriptFailed(r.returncode)
                    THEN /\ Return(w, StopFailedResponse(service, r), "stop_service")
                         /\ hist' = [hist EXCEPT ![w] = Bump(called, "stop_scripts")]
                         /\ UNCHANGED upd
                    ELSE /\ pc' = [pc EXCEPT ![w] = "upd_inspect"]
                         /\ upd' = [upd EXCEPT ![w] = UpdStart("stop_return")]
                         /\ hist' = [hist EXCEPT ![w] =
                                       Bump(Bump(called, "stop_scripts"), "sleeps")]
                         /\ UNCHANGED <<resp, stop_result>>
  /\ UNCHANGED <<host, service_processes, nreq, req, i, view, peers>>

\* the return after update_service_status(): reads the service's status
stop_return(w) ==
  /\ pc[w] = "stop_return"
  /\ Return(w, StoppedResponse(req[w].service, script_out[w]), "stop_service")
  /\ UNCHANGED <<host, service_processes, nreq, req, locals_but_stop, history>>

stop_service(w) == stop_entry(w) \/ stop_return(w)
start_service(w) == start_entry(w) \/ start_script(w) \/ start_poll(w) \/ start_return(w)

\* ---- restart_service ----
\* "stop_result[0]": only a tuple can be subscripted
Subscriptable(r) == r.tuple
\* mutant: restart_service goes on to start whatever stop returned
StopFailed_M(r) == FALSE
\* "if not stop_result[0].get_json().get('success', False):"
StopFailed(r) == ~Get(r.body, "success", FALSE)

\* the name check and the call of stop_service
restart_entry(w) ==
  /\ pc[w] = "restart_entry"
  /\ IF ~IsValidService(req[w].service)
     THEN Return(w, InvalidService, "restart_service")
     ELSE /\ pc' = [pc EXCEPT ![w] = "stop_entry"]
          /\ UNCHANGED <<resp, stop_result>>
  /\ UNCHANGED <<host, service_processes, nreq, req, locals_but_stop, history>>

\* the test of stop_result, time.sleep(2) and the call of start_service
restart_after_stop(w) ==
  /\ pc[w] = "restart_after_stop"
  /\ LET r == stop_result[w] IN
       IF ~Subscriptable(r)
       THEN /\ Return(w, InternalServerError("TypeError"), "restart_service")
            /\ UNCHANGED hist
       ELSE IF StopFailed(r)
       THEN /\ Return(w, r, "restart_service")
            /\ UNCHANGED hist
       ELSE /\ pc' = [pc EXCEPT ![w] = "start_entry"]
            /\ hist' = [hist EXCEPT ![w] = Bump(@, "sleeps")]
            /\ UNCHANGED <<resp, stop_result>>
  /\ UNCHANGED <<host, service_processes, nreq, req, locals_but_stop, child, peers>>

restart_service(w) == restart_entry(w) \/ restart_after_stop(w)

\* ---- get_services_status ----
StatusResponse(body) ==
  [code |-> 200, tuple |-> FALSE,
   body |-> [s \in DOMAIN body |->
               [status |-> body[s].status, pid |-> body[s].pid,
                healthy |-> body[s].healthy, port |-> PortOf(s),
                endpoint |-> <<"http://localhost", PortOf(s)>>]]]

\* the dict literal after update_service_status(), one value at a time:
\* ['status'], ['pid'], check_service_health() for nllb, then for ollama
status_read(w) ==
  /\ pc[w] = "status_read"
  /\ LET k == view[w].k
         service == Services[(k \div 3) + 1]
         old == view[w].body[service]
         new == CASE k % 3 = 0 -> [old EXCEPT !.status = service_processes[service].status]
                  [] k % 3 = 1 -> [old EXCEPT !.pid = service_processes[service].pid]
                  [] k % 3 = 2 -> [old EXCEPT !.healthy = check_service_health(service)]
         body == [view[w].body EXCEPT ![service] = new]
     IN IF k + 1 < 3 * Len(Services)
        THEN /\ view' = [view EXCEPT ![w] = [k |-> k + 1, body |-> body]]
             /\ UNCHANGED <<pc, resp, stop_result>>
        ELSE /\ view' = [view EXCEPT ![w] = [k |-> k + 1, body |-> body]]
             /\ Return(w, StatusResponse(body), "get_services_status")
  /\ UNCHANGED <<host, service_processes, nreq, req, script_out, i, upd, history>>

get_services_status(w) == status_read(w)

\* ---- health ----
\* mutant: the view reconciles the registry before it answers
health_M(w) ==
  /\ pc[w] = "health_entry"
  /\ LET fresh == [s \in {"nllb", "ollama"} |->
                     Reconciled(get_process_by_port(PortOf(s), FALSE),
                                check_service_health(s))]
     IN /\ service_processes' = fresh
        /\ Return(w, [code |-> 200, tuple |-> FALSE,
                      body |-> [status |-> "healthy", services |-> fresh]],
                  "health")
  /\ UNCHANGED <<host, nreq, req, locals_but_stop, history>>

\* "return jsonify({'status': 'healthy', 'services': service_processes})"
health(w) ==
  /\ pc[w] = "health_entry"
  /\ Return(w, [code |-> 200, tuple |-> FALSE,
                body |-> [status |-> "healthy", services |-> service_processes]],
            "health")
  /\ UNCHANGED <<host, service_processes, nreq, req, locals_but_stop, history>>

\* ---- the server ----
\* one request at a time: a request arrives when no other is being handled
SerialBegin(w) == Begin(w) /\ \A v \in Workers : ~InFlight(v)

Handle(w) ==
  \/ health(w)
  \/ get_services_status(w)
  \/ update_service_status(w)
  \/ start_service(w)
  \/ stop_service(w)
  \/ restart_service(w)

Next ==
  \/ EnvChange
  \/ \E w \in Workers : SerialBegin(w) \/ Finish(w) \/ Handle(w)

Spec == Init /\ [][Next]_vars

\* Requests overlap: app.run serves each request in a thread of its own. To
\* keep the overlapping behaviours few, of the host only nllb is up or coming
\* up: ollama is down, and the one change is a listening service that begins
\* to answer its health URL.
InitThreaded == Init /\ listening[PortOf("ollama")] = None /\ ~healthy["ollama"]

ServiceReady ==
  /\ envChanges < MaxEnvChanges
  /\ \E s \in {"nllb", "ollama"} :
       /\ listening[PortOf(s)] # None /\ ~healthy[s]
       /\ healthy' = [healthy EXCEPT ![s] = TRUE]
  /\ envChanges' = envChanges + 1
  /\ UNCHANGED <<listening, service_processes, nreq, pc, req, resp, probe>>
  /\ UNCHANGED <<locals, history>>

ThreadedBegin(w) == Begin(w) /\ nreq < MaxThreadedRequests

NextThreaded ==
  \/ ServiceReady
  \/ \E w \in Workers : ThreadedBegin(w) \/ Finish(w) \/ Handle(w)

SpecThreaded == InitThreaded /\ [][NextThreaded]_vars

\* The thread of a request keeps running until its view function has
\* returned: every call it waits for returns, a script run after at most 30 s
\* and a health probe after at most 5 s.
Fairness == \A w \in Workers : WF_vars(Handle(w))

FairBegin(w) == SerialBegin(w) /\ nreq < MaxFairRequests

\* a service begins or ceases to answer its health URL: of the host, the
\* handlers' control flow reads only this
HealthChange ==
  /\ envChanges < MaxEnvChanges
  /\ \E s \in {"nllb", "ollama"} : healthy' = [healthy EXCEPT ![s] = ~@]
  /\ envChanges' = envChanges + 1
  /\ UNCHANGED <<listening, service_processes, nreq, pc, req, resp, probe>>
  /\ UNCHANGED <<locals, history>>

NextFair ==
  \/ HealthChange
  \/ \E w \in Workers : FairBegin(w) \/ Finish(w) \/ Handle(w)

SpecFair == Init /\ [][NextFair]_vars /\ Fairness

\* ---- one health probe, from the service's endpoint to the prober's result ----
\* GET /health of the NLLB service; model_loaded: "model is not None"
nllb_health_check(model_loaded) ==
  [code |-> 200,
   body |-> [status |-> "healthy", model_loaded |-> model_loaded]]

\* GET /health of the Ollama service; ollama_ready: what check_ollama_health()
\* returned, true when the backend answered /api/tags with 200
ollama_health_check(ollama_ready) ==
  [code |-> 200,
   body |-> [status |-> IF ollama_ready THEN "healthy" ELSE "unhealthy",
             ollama_ready |-> ollama_ready]]

health_check(service, ready) ==
  IF service = "nllb" THEN nllb_health_check(ready) ELSE ollama_health_check(ready)

\* the request reaches the service's own endpoint
Delivered == [kind |-> "endpoint", code |-> 0, exc |-> ""]

\* a probe about to be made: the name asked for, whether the service is ready
\* to serve, and what happens to the request on the way
ProbeInputs ==
  [stage : {"request"}, service : RequestNames, ready : BOOLEAN,
   wire : {Delivered} \cup HttpOutcomes, get : {NoGet}, result : {FALSE}]

InitProbe == Booted /\ probe \in ProbeInputs

\* "response = requests.get(url, timeout=5)" for a name that has a URL
requests_get ==
  /\ probe.stage = "request"
  /\ probe.service \in {"nllb", "ollama"}
  /\ probe' = [probe EXCEPT
                 !.stage = "answered",
                 !.get = IF probe.wire.kind = "endpoint"
                         THEN HttpResponse(health_check(probe.service, probe.ready).code)
                         ELSE probe.wire]
  /\ UNCHANGED <<listening, healthy, envChanges, service_processes, nreq, pc, req, resp>>
  /\ UNCHANGED <<locals, history>>

\* the return of check_service_health: after the GET, or at once for a name
\* without a URL
probe_return ==
  /\ \/ probe.stage = "answered"
     \/ probe.stage = "request" /\ probe.service \notin {"nllb", "ollama"}
  /\ probe' = [probe EXCEPT
                 !.stage = "returned",
                 !.result = check_service_health_given(probe.service, probe.get)]
  /\ UNCHANGED <<listening, healthy, envChanges, service_processes, nreq, pc, req, resp>>
  /\ UNCHANGED <<locals, history>>

NextProbe == requests_get \/ probe_return

SpecProbe == InitProbe /\ [][NextProbe]_vars

\* ---- what the claims speak about ----
KnownNames == {"nllb", "ollama"}
Done(w) == pc[w] = "done"
Answered(w, op) == Done(w) /\ req[w].op = op
Success(r) == r.code = 200 /\ Get(r.body, "success", FALSE)
\* the script run in this invocation did not exit with 0
ChildFailed(w) == child[w].kind \in {"timeout", "oserror"} \/ (child[w].kind = "exit" /\ child[w].rc # 0)
ChildExitedZero(w) == child[w].kind = "exit" /\ child[w].rc = 0

\* C3: Start answers success only if a health probe of that same invocation
\* returned true; the start script exiting 0 is not enough.
C3_StartSuccessNeedsProbe ==
  \A w \in Workers :
    (Answered(w, "start") /\ Success(resp[w])) => hist[w].probes_true >= 1

\* a Start that ran its script, polled and answered success
C3_Witness ==
  \E w \in Workers :
    /\ Answered(w, "start") /\ Success(resp[w])
    /\ hist[w].start_scripts = 1 /\ ChildExitedZero(w) /\ hist[w].probes_true = 1

\* C4: a Start on a known service whose first health probe is true runs no
\* script and answers success with status running, also when it is repeated.
C4_HealthyStartRunsNoScript ==
  \A w \in Workers :
    (req[w].op = "start" /\ req[w].service \in KnownNames
       /\ hist[w].first_probe = "true")
    => /\ hist[w].start_scripts = 0 /\ hist[w].stop_scripts = 0
       /\ child[w] = NoOutcome
       /\ Done(w) /\ Success(resp[w])
       /\ resp[w].body.status = "running"

\* a repeated Start on a healthy service has answered
C4_Witness ==
  \E w \in Workers :
    /\ Answered(w, "start") /\ hist[w].first_probe = "true"
    /\ hist[w].start_scripts = 0 /\ nreq >= 2

\* C5: for a name outside {nllb, ollama}, start, stop and restart answer 400,
\* run no script, and no step of the request changes the registry.
C5_UnknownNameRejected ==
  /\ [](\A w \in Workers :
          (req[w].op \in LifecycleOps /\ req[w].service \notin KnownNames)
          => /\ hist[w].start_scripts = 0 /\ hist[w].stop_scripts = 0
             /\ child[w] = NoOutcome
             /\ Done(w) => resp[w].code = 400
             /\ service_processes = hist[w].reg0)
  /\ [][\A w \in Workers :
          (req[w].op \in LifecycleOps /\ req[w].service \notin KnownNames
             /\ pc'[w] # pc[w])
          => /\ pc'[w] \in {"done", "idle"}
             /\ service_processes' = service_processes]_vars

C5_Witness ==
  /\ \E w \in Workers :
       /\ Answered(w, "restart") /\ req[w].service = "bogus" /\ resp[w].code = 400
  /\ \E s \in KnownNames : service_processes[s].status = "running"

\* C6: when the Stop phase of a Restart fails, the start script is not run,
\* start_service is not called and probes nothing, and Restart answers with
\* exactly what Stop returned.
C6_RestartStopFailure ==
  \A w \in Workers :
    (Answered(w, "restart") /\ req[w].service \in KnownNames
       /\ hist[w].stop_scripts = 1 /\ ChildFailed(w))
    => /\ hist[w].start_scripts = 0 /\ hist[w].start_calls = 0 /\ hist[w].probes = 0
       /\ stop_result[w] = StopFailedResponse(req[w].service, run_script(child[w]))
       /\ resp[w] = stop_result[w]

C6_Witness ==
  \E w \in Workers :
    /\ Answered(w, "restart") /\ hist[w].stop_scripts = 1 /\ child[w].kind = "exit"
    /\ child[w].rc = 1 /\ resp[w].code = 500 /\ resp[w] = stop_result[w]

\* C7 (as claimed): when the Stop phase of a Restart succeeds, Restart calls
\* Start exactly once and answers with the outcome of that Start.
C7_RestartRunsStart ==
  \A w \in Workers :
    (Answered(w, "restart") /\ req[w].service \in KnownNames
       /\ Success(stop_result[w]))
    => /\ hist[w].start_calls = 1
       /\ "success" \in DOMAIN resp[w].body

\* C8 (as claimed): Stop answers success only if the reconciliation it made after
\* the settle delay found the service stopped.
C8_StopSuccessMeansStopped ==
  \A w \in Workers :
    (Answered(w, "stop") /\ req[w].service \in KnownNames /\ Success(resp[w]))
    => hist[w].recon = "stopped"

C10_FailedStartLeavesStopped ==
  \A w \in Workers :
    (Answered(w, "start") /\ hist[w].start_scripts = 1 /\ ChildFailed(w))
    => service_processes[req[w].service].status = "stopped"

\* C10 (amended): a Start that failed because its script failed has not written
\* the registry: with no other request in between, every record is what it was
\* when the Start began.
C10_FailedStartKeepsRegistry ==
  \A w \in Workers :
    (Answered(w, "start") /\ hist[w].start_scripts = 1 /\ ChildFailed(w))
    => /\ service_processes = hist[w].reg0
       /\ hist[w].updates = 0 /\ hist[w].recon = "none"

\* a failed Start after which the service is still recorded as running
C10_Witness ==
  \E w \in Workers :
    /\ Answered(w, "start") /\ hist[w].start_scripts = 1 /\ ChildFailed(w)
    /\ service_processes[req[w].service].status = "running"

\* C1 (as claimed): two Starts of the same known service that overlap while the
\* service is not healthy run the start script once in total and get the same
\* outcome.
C1_OneScriptSameOutcome ==
  \A w1, w2 \in Workers :
    (/\ w1 # w2 /\ Answered(w1, "start") /\ Answered(w2, "start")
     /\ req[w1].service = req[w2].service /\ req[w1].service \in KnownNames
     /\ w2 \in peers[w1] /\ w1 \in peers[w2]
     /\ hist[w1].first_probe = "false" /\ hist[w2].first_probe = "false")
    => /\ hist[w1].start_scripts + hist[w2].start_scripts = 1
       /\ Success(resp[w1]) = Success(resp[w2])

\* a lifecycle request that has begun to probe or to run its script
Operating(w) ==
  /\ InFlight(w) /\ req[w].op \in LifecycleOps /\ req[w].service \in KnownNames
  /\ hist[w].probes + hist[w].start_scripts + hist[w].stop_scripts > 0

\* C2 (as claimed): at most one lifecycle operation is in flight per service.
C2_OneInFlightPerService ==
  \A w1, w2 \in Workers :
    (w1 # w2 /\ Operating(w1) /\ Operating(w2)) => req[w1].service # req[w2].service

\* a Start whose script exited 0: it has entered the polling loop
Polling(w) ==
  /\ req[w].op = "start" /\ pc[w] # "idle"
  /\ hist[w].start_scripts = 1 /\ ChildExitedZero(w)

\* C11: after the start script exits 0, Start polls at most 15 times, sleeps
\* once before each poll, answers success at the first positive poll and polls
\* no more after it.
C11_PollsUntilFirstPositive ==
  \A w \in Workers :
    Polling(w) =>
      /\ i[w] <= 15
      /\ hist[w].sleeps = i[w] /\ hist[w].probes = i[w] + 1
      /\ hist[w].probes_true <= 1
      /\ pc[w] = "start_poll" => (hist[w].probes_true = 0 /\ i[w] < 15)
      /\ hist[w].probes_true = 1 =>
           /\ pc[w] \in {"upd_inspect", "upd_write_pid", "upd_write_status",
                         "start_return", "done"}
           /\ Done(w) => Success(resp[w])

\* positive on the 3rd poll: exactly 3 polls, then success
C11_Witness ==
  \E w \in Workers :
    /\ Polling(w) /\ Done(w) /\ Success(resp[w])
    /\ i[w] = 3 /\ hist[w].sleeps = 3 /\ hist[w].probes_true = 1

\* C12: if the start script exits 0 and all 15 polls are negative, Start answers
\* 500 with the start-timeout error, not success.
C12_StartTimeout ==
  \A w \in Workers :
    (Polling(w) /\ Done(w) /\ hist[w].probes_true = 0) =>
      /\ i[w] = 15 /\ hist[w].probes = 16
      /\ resp[w].code = 500 /\ Get(resp[w].body, "success", TRUE) = FALSE
      /\ resp[w].body.error = <<req[w].service, "service failed to start within timeout">>

C12_Witness ==
  \E w \in Workers :
    /\ Polling(w) /\ Done(w) /\ hist[w].probes_true = 0
    /\ i[w] = 15 /\ resp[w].code = 500

\* C13 (as claimed): whenever Start answers success, the invocation has
\* reconciled the registry, and the service's record is running with a pid.
C13_SuccessMeansRecordedRunning ==
  \A w \in Workers :
    (Answered(w, "start") /\ Success(resp[w])) =>
      /\ hist[w].updates >= 1
      /\ service_processes[req[w].service].status = "running"
      /\ service_processes[req[w].service].pid # None

\* what a reconciliation that observed o must leave in the registry
Expected(o) ==
  IF o.pid # None /\ o.h
  THEN [pid |-> o.pid, status |-> "running", start_time |-> None]
  ELSE [pid |-> None, status |-> "stopped", start_time |-> None]

\* C14: a reconciliation leaves a service running with the found pid exactly
\* when it found a listener on the port and the health probe succeeded, else
\* stopped without pid; what a status query reports is determined by what it
\* observed, whatever the registry held before.
C14_ReconciliationFollowsObservation ==
  \A w \in Workers :
    /\ \A s \in KnownNames :
         (hist[w].obs[s].seen /\ ~(pc[w] = "upd_write_status" /\ Services[upd[w].idx] = s))
         => service_processes[s] = Expected(hist[w].obs[s])
    /\ Answered(w, "status") =>
         \A s \in KnownNames :
           /\ hist[w].obs[s].seen
           /\ resp[w].body[s].status = Expected(hist[w].obs[s]).status
           /\ resp[w].body[s].pid = Expected(hist[w].obs[s]).pid

\* a status query that found a recorded-running service down and a
\* recorded-stopped one up
C14_Witness ==
  \E w \in Workers :
    /\ Answered(w, "status")
    /\ \E s \in KnownNames :
         /\ hist[w].reg0[s].status = "running" /\ resp[w].body[s].status = "stopped"
         /\ hist[w].obs[s].pid # None /\ ~hist[w].obs[s].h
    /\ \E s \in KnownNames :
         /\ hist[w].reg0[s].status = "stopped" /\ resp[w].body[s].status = "running"

\* C15 (as claimed): a status query answers successfully and leaves the
\* registry records as they were before it.
C15_StatusNeverMutates ==
  \A w \in Workers :
    Answered(w, "status") => (resp[w].code = 200 /\ service_processes = hist[w].reg0)

\* C15 (amended): a status query answers 200 and runs no script; it reconciles
\* once, and a record is as it was before the query exactly when what the query
\* observed is what was recorded.
C15_StatusRewritesToObservation ==
  \A w \in Workers :
    Answered(w, "status") =>
      /\ resp[w].code = 200
      /\ hist[w].start_scripts = 0 /\ hist[w].stop_scripts = 0 /\ child[w] = NoOutcome
      /\ hist[w].updates = 1
      /\ \A s \in KnownNames :
           (service_processes[s] = hist[w].reg0[s])
             <=> (Expected(hist[w].obs[s]) = hist[w].reg0[s])

\* a status query that changed one record and left the other as it was
C15_Witness ==
  \E w \in Workers :
    /\ Answered(w, "status")
    /\ \E s \in KnownNames : service_processes[s] # hist[w].reg0[s]
    /\ \E s \in KnownNames :
         service_processes[s] = hist[w].reg0[s] /\ service_processes[s].status = "running"

\* the record of service s in the body of a status or health response
Reported(w, s) ==
  IF req[w].op = "health" THEN resp[w].body.services[s] ELSE resp[w].body[s]

\* C16 (as claimed): a status or health response holds, for each service, a
\* complete record (the one before or the one after an update), never a pid
\* without running or running without a pid.
C16_ReadsWholeRecords ==
  \A w \in Workers :
    (Done(w) /\ req[w].op \in {"status", "health"}) =>
      \A s \in KnownNames :
        (Reported(w, s).status = "running") <=> (Reported(w, s).pid # None)

\* C17: in every reachable state the registry holds exactly the two names it
\* was created with; no request adds or deletes an entry.
C17_RegistryNamesFixed == DOMAIN service_processes = {"nllb", "ollama"}

\* a request with an unknown name was answered after a request whose
\* reconciliation rewrote the registry
C17_Witness ==
  /\ \E w \in Workers :
       Done(w) /\ req[w].op \in LifecycleOps /\ req[w].service = "bogus"
  /\ nreq = 2
  /\ \E s \in KnownNames : service_processes[s].status = "stopped" /\ healthy[s]
                             /\ listening[PortOf(s)] # None /\ envChanges = 0

\* C18: every record's status is stopped or running in every reachable state,
\* also while a Start or a Stop is in flight.
C18_OnlyPersistedStates ==
  \A s \in DOMAIN service_processes :
    service_processes[s].status \in {"stopped", "running"}

\* a Stop in the middle of its reconciliation, having found the service down
C18_Witness ==
  \E w \in Workers :
    /\ req[w].op = "stop" /\ pc[w] = "upd_inspect" /\ upd[w].idx = 2
    /\ hist[w].reg0["nllb"].status = "running"
    /\ service_processes["nllb"].status = "stopped"

C20_NoScriptRetry ==
  \A w \in Workers :
    /\ hist[w].start_scripts <= 1 /\ hist[w].stop_scripts <= 1
    /\ req[w].op = "start" => hist[w].stop_scripts = 0
    /\ req[w].op = "stop" => hist[w].start_scripts = 0
    /\ (Done(w) /\ req[w].op \in {"stop", "restart"} /\ req[w].service \in KnownNames)
         => hist[w].stop_scripts = 1
    /\ req[w].op \in {"status", "health"} =>
         hist[w].start_scripts + hist[w].stop_scripts = 0

\* a Stop of a service recorded stopped has run its script once
C20_Witness ==
  \E w \in Workers :
    /\ Answered(w, "stop") /\ req[w].service \in KnownNames
    /\ hist[w].reg0[req[w].service].status = "stopped"
    /\ hist[w].stop_scripts = 1 /\ Success(resp[w])

\* C21: GET /health answers 200 with the registry exactly as it stood when the
\* request arrived: it has inspected no port, probed no health URL, run no
\* script and written nothing to the registry.
C21_HealthReturnsSnapshot ==
  \A w \in Workers :
    Answered(w, "health") =>
      /\ resp[w].code = 200
      /\ resp[w].body.services = hist[w].reg0
      /\ service_processes = hist[w].reg0
      /\ hist[w].updates = 0 /\ hist[w].probes = 0
      /\ hist[w].start_scripts = 0 /\ hist[w].stop_scripts = 0
      /\ \A s \in KnownNames : ~hist[w].obs[s].seen

\* a /health answer that differs from what a reconciliation of the host at
\* this moment would record
C21_Witness ==
  \E w \in Workers :
    /\ Answered(w, "health")
    /\ \E s \in KnownNames :
         /\ resp[w].body.services[s].status = "running"
         /\ resp[w].body.services[s] # Reconciled(listening[PortOf(s)], healthy[s])

\* C22: whatever goes wrong while the processes are listed, the inspection of
\* a port yields the pid listening on it or None and the reconciliation goes
\* on; a status query answers 200, and a Start or Stop that got as far as its
\* reconciliation answers success.
C22_InspectorNeverFails ==
  /\ [](\A w \in Workers :
          /\ upd[w].pid \in {None} \cup Pids
          /\ Answered(w, "status") => resp[w].code = 200
          /\ (Done(w) /\ req[w].op \in {"start", "stop"} /\ hist[w].updates > 0)
               => Success(resp[w]))
  /\ [][\A w \in Workers :
          (pc[w] = "upd_inspect" /\ pc'[w] # "upd_inspect") =>
            /\ pc'[w] = "upd_write_pid"
            /\ upd'[w].pid \in {None, listening[PortOf(Services[upd[w].idx])]}
            /\ resp'[w] = NoResp]_vars

\* a status query answered although the inspection of a listening port failed
C22_Witness ==
  \E w \in Workers :
    /\ Answered(w, "status") /\ resp[w].code = 200
    /\ envChanges = 0
    /\ \E s \in KnownNames :
         /\ hist[w].obs[s].seen /\ hist[w].obs[s].pid = None
         /\ listening[PortOf(s)] # None

\* C23: the prober returns a boolean, and returns true only for a known name
\* whose GET was answered with status 200: an exception of the request, any
\* other status and a name without a URL all give false.
C23_ProbeTrueOnlyOn200 ==
  probe.stage = "returned" =>
    /\ probe.result \in BOOLEAN
    /\ probe.result <=> /\ probe.service \in KnownNames
                        /\ probe.get.kind = "response"
                        /\ probe.get.code = 200

\* a probe that ran into the request timeout and returned false
C23_Witness ==
  /\ probe.stage = "returned"
  /\ probe.get = HttpRaise("Timeout")
  /\ probe.result = FALSE

\* C25: a managed service's health endpoint answers 200 when and only when the
\* service is ready to serve (NLLB: model loaded; Ollama: backend reachable).
C25_Answers200IffReady ==
  (probe.stage \in {"answered", "returned"} /\ probe.wire = Delivered) =>
    (probe.get.code = 200 <=> probe.ready)

\* C24: every Start, Stop and Restart that has begun is answered; on the way
\* it runs each script at most once, Start probes at most once before the
\* script and at most PollAttempts times after it, one sleep before each poll.
C24_LifecycleTerminates ==
  /\ \A w \in Workers :
       (InFlight(w) /\ req[w].op \in LifecycleOps) ~> Done(w)
  /\ [](\A w \in Workers :
          req[w].op \in LifecycleOps =>
            /\ hist[w].start_scripts <= 1 /\ hist[w].stop_scripts <= 1
            /\ hist[w].probes <= 1 + PollAttempts
            /\ hist[w].sleeps <= PollAttempts
            /\ i[w] <= PollAttempts)

\* a Start answered after it has used all it may: the first probe, the
\* script, and every poll of the loop
C24_Witness ==
  \E w \in Workers :
    /\ Answered(w, "start")
    /\ hist[w].start_scripts = 1
    /\ hist[w].probes = 1 + PollAttempts
    /\ hist[w].sleeps = PollAttempts

\* C26: whenever no reconciliation stands between its two writes to a record,
\* every record has a pid exactly when its status is running.
C26_PidIffRunning ==
  (\A w \in Workers : pc[w] # "upd_write_status") =>
    \A s \in KnownNames :
      service_processes[s].pid # None <=> service_processes[s].status = "running"

\* the services a lifecycle request was not made for
Others(w) == KnownNames \ {req[w].service}

\* C27 (as claimed): when a Start, Stop or Restart has been answered, the
\* record of the other service is what it was when the request arrived.
C27_OtherRecordUntouched ==
  \A w \in Workers :
    (Done(w) /\ req[w].op \in LifecycleOps) =>
      \A s \in Others(w) : service_processes[s] = hist[w].reg0[s]

\* C27 (amended): a Start, Stop or Restart changes the other service's record
\* only by reconciling it: if the operation reconciled, the record is what was
\* observed for that service (the pid and running when a listener was found
\* and its probe succeeded, otherwise no pid and stopped); if it did not, the
\* record is what it was when the request arrived.
C27_OtherRecordOnlyReconciled ==
  \A w \in Workers :
    (Done(w) /\ req[w].op \in LifecycleOps) =>
      \A s \in Others(w) :
        service_processes[s] =
          IF hist[w].obs[s].seen THEN Expected(hist[w].obs[s]) ELSE hist[w].reg0[s]

\* a Stop of one service that rewrote the stale record of the other
C27_Witness ==
  \E w \in Workers :
    /\ Answered(w, "stop") /\ req[w].service \in KnownNames
    /\ \E s \in Others(w) :
         /\ hist[w].obs[s].seen
         /\ service_processes[s] # hist[w].reg0[s]

\* C30: start_time of every record is None in every state.
C30_StartTimeNeverWritten ==
  \A s \in KnownNames : service_processes[s].start_time = None

\* a request has changed a record's status and pid; its start_time is still empty
C30_Witness ==
  \E w \in Workers : \E s \in KnownNames :
    /\ Done(w)
    /\ hist[w].reg0[s].status = "stopped"
    /\ service_processes[s].status = "running"
    /\ service_processes[s].pid # None
    /\ service_processes[s].start_time = None

\* C28: in the body of a status response, a service reported running is
\* reported healthy, and a service reported not healthy is reported stopped.
C28_StatusAgreesWithHealthy ==
  \A w \in Workers :
    Answered(w, "status") =>
      \A s \in KnownNames :
        /\ resp[w].body[s].status = "running" => resp[w].body[s].healthy
        /\ ~resp[w].body[s].healthy => resp[w].body[s].status = "stopped"

\* C29: a Start whose script exited 0 gives up only at the 15th poll and only
\* when the service's health URL does not answer at that poll; once a poll
\* was positive the Start answers success. So a service healthy from some
\* poll on, the 15th at the latest, makes Start succeed.
C29_ReadyInTimeMeansSuccess ==
  /\ [](\A w \in Workers :
          (Polling(w) /\ Done(w) /\ hist[w].probes_true > 0) =>
            /\ Success(resp[w])
            /\ resp[w] = StartedResponse(req[w].service, script_out[w]))
  /\ [][\A w \in Workers :
          (pc[w] = "start_poll" /\ pc'[w] = "done") =>
            /\ i[w] = PollAttempts - 1
            /\ ~healthy[req[w].service]
            /\ resp'[w] = StartTimeoutResponse(req[w].service, script_out[w])]_vars

\* a Start answered with success by the 15th poll: the service became healthy
\* just before it
C29_Witness ==
  \E w \in Workers :
    /\ Polling(w) /\ Done(w)
    /\ i[w] = PollAttempts /\ hist[w].probes_true = 1
    /\ healthy[req[w].service]
    /\ Success(resp[w])

====
